---- MODULE Spec2Model ----
(***************************************************************************)
(* Model of the request orchestration of Auto-Agent-X:                     *)
(*   - IntentService.classify         (services/intent_service.py)         *)
(*   - EnsembleRetriever              (services/retrieval_service.py)      *)
(*   - RAGPipeline.execute / execute_stream   (engine/pipeline.py)         *)
(*   - RAGService.chat_stream         (services/rag_service.py)            *)
(* Confidence values are kept in hundredths (0.69 is 69, 0.7 is 70).       *)
(***************************************************************************)
EXTENDS Integers, Sequences, FiniteSets, TLC

VARIABLES
    \* ---- IntentService.classify
    llm_output,       \* what self.chain.ainvoke produces for the request
    intent_pc,        \* "call" before classify runs, "returned" / "raised" after
    intent_result,    \* the IntentResult classify returned (NoResult before)
    \* ---- EnsembleRetriever._aget_relevant_documents
    source_outcome,   \* per retriever: the list ainvoke yields, or Failed
    results,          \* per retriever: Pending until its task settles
    retr_pc,          \* "gather" while tasks run, "returned" after the merge
    unique_docs,      \* the list _aget_relevant_documents returned
    settled_order,    \* the retrievers in the order their tasks settled
    call_no,          \* which retrieval of the same query this is (1, 2)
    first_docs,       \* the list the first retrieval returned
    \* ---- one request through RAGPipeline / RAGService
    api,              \* which entry point serves the request
    nodes,            \* RAGPipeline.nodes: the stages with a registered handler
    middlewares,      \* RAGPipeline.middlewares, in registration order
    pc,               \* position of the request in its coroutine / generator
    ctx,              \* the PipelineContext of the request
    invoked,          \* stage handlers invoked so far, in order
    trace,            \* hook and handler calls made so far, in order
    source_calls,     \* document-source invocations made for the request
    retrieval,        \* what the request's retrieve call did
    reply,            \* the dict RAGService.chat returned
    events,           \* SSE events yielded so far, in order
    docs,             \* chat_stream's local docs
    tokens_out,       \* increments the backend stream has produced so far
    full_response,    \* chat_stream's local full_response, as its increments
    llm_stream,       \* the chain.astream iterator: "unopened", "open", "closed"
    consumer,         \* the reader of the event stream: "attached", "detached"
    outcome,          \* "running", "returned", "raised"
    \* ---- one citation built from one document
    cite_site,        \* which of the three citation comprehensions runs
    cite_text,        \* the document's content
    cite_content,     \* the content field of its citation
    \* ---- one call of a BailianChatOpenAI method
    bl_method,        \* "_generate", "_agenerate", "_stream", "_astream"
    bl_super,         \* what the ChatOpenAI method does: its chunks, its failure
    bl_pc,            \* "idle", "running", "returned", "raised"
    bl_chunks,        \* what the caller has received so far
    bl_raised,        \* the exception the caller received
    \* ---- one _execute_stage call and a task registering meanwhile
    rg_middlewares,   \* self.middlewares, as it is now
    rg_nodes,         \* self.nodes, as it is now: stage -> handler (0: none)
    rg_pc,            \* where the _execute_stage coroutine is
    rg_index,         \* the position of the running for loop's iterator
    rg_node,          \* the local "node"
    rg_trace,         \* the calls the stage has made, in order
    rg_entry,         \* self.middlewares and self.nodes when the call began
    rg_count,         \* registrations made since the call began
    \* ---- the same request through chat and through chat_stream
    ag_in,            \* classifier output, source results, backend text
    ag_chat,          \* the chat coroutine: its position, locals and reply
    ag_stream         \* the chat_stream generator: position, locals, events

intentVars == <<llm_output, intent_pc, intent_result>>
retrVars ==
    <<source_outcome, results, retr_pc, unique_docs, settled_order, call_no,
      first_docs>>
reqVars ==
    <<api, nodes, middlewares, pc, ctx, invoked, trace, source_calls, retrieval,
      reply, events, docs, tokens_out, full_response, llm_stream, consumer,
      outcome>>
citeVars == <<cite_site, cite_text, cite_content>>
bailianVars == <<bl_method, bl_super, bl_pc, bl_chunks, bl_raised>>
regVars ==
    <<rg_middlewares, rg_nodes, rg_pc, rg_index, rg_node, rg_trace, rg_entry,
      rg_count>>
agreeVars == <<ag_in, ag_chat, ag_stream>>
pureVars == <<citeVars, bailianVars, regVars, agreeVars>>
vars == <<intentVars, retrVars, reqVars, pureVars>>

-----------------------------------------------------------------------------
(* IntentService                                                           *)

IntentType ==
    {"code_search", "code_explain", "code_review", "bug_fix", "refactor",
     "general_qa", "casual_chat", "clarification"}

allowed_template_ids ==
    {"default_v1", "code_search_v1", "code_explain_v1", "code_review_v1",
     "bug_fix_v1", "refactor_v1", "general_qa_v1", "casual_chat_v1"}

\* A key the classifier's JSON object does not carry (dict.get takes its default).
MISSING == "<missing>"
\* A value pydantic cannot coerce to the field's type (ValidationError).
INVALID == "<invalid>"

Absent == [t |-> "absent"]
Bad == [t |-> "bad"]
Num(n) == [t |-> "num", v |-> n]
Bool(b) == [t |-> "bool", v |-> b]

\* result.get(key, default)
dict_get(value, default) == IF value = MISSING THEN default ELSE value
dict_get_tagged(value, default) == IF value = Absent THEN default ELSE value.v

\* template_map.get(intent, "default_v1")
match_template(intent) ==
    CASE intent = "code_search" -> "code_search_v1"
      [] intent = "code_explain" -> "code_explain_v1"
      [] intent = "code_review" -> "code_review_v1"
      [] intent = "bug_fix" -> "bug_fix_v1"
      [] intent = "refactor" -> "refactor_v1"
      [] intent = "general_qa" -> "general_qa_v1"
      [] intent = "casual_chat" -> "casual_chat_v1"
      [] OTHER -> "default_v1"

\* intent_enum: GENERAL_QA unless the string is a member of the enum
intent_enum_of(intent_str) ==
    IF intent_str \in IntentType THEN intent_str ELSE "general_qa"

\* "not template_id": a missing key (None) and the empty string are falsy
template_falsy(template_id) == template_id = MISSING \/ template_id = ""

\* the template id classify puts in the result
resolve_template(out) ==
    LET intent_str == dict_get(out.intent, "general_qa")
        template_id == out.suggested_prompt_template
    IN  IF \/ template_falsy(template_id)
           \/ template_id = "template_id"
           \/ template_id \notin allowed_template_ids
        THEN match_template(intent_str)
        ELSE template_id

\* the value classify passes as requires_clarification
resolve_clarification(out) == dict_get_tagged(out.requires_clarification, FALSE)

\* IntentResult(...) of the except branch
SafeDefault ==
    [intent |-> "general_qa", confidence |-> 50, entities |-> "empty",
     suggested_prompt_template |-> "general_qa_v1",
     requires_clarification |-> FALSE]

\* The exception the try block raises, "none" when it runs to its return:
\* the chain call fails (backend, or JsonOutputParser), or the IntentResult
\* constructor rejects a field value.
try_exception(out) ==
    CASE out.chain = "backend_error" -> "backend"
      [] out.chain = "parse_error" -> "parse"
      [] out.confidence = Bad -> "validation"
      [] out.entities = INVALID -> "validation"
      [] out.requires_clarification = Bad -> "validation"
      [] OTHER -> "none"

\* (mutant) the IntentResult constructor sits outside the try block
except_catches_not_validation(exc) == exc \in {"backend", "parse"}

\* "except Exception as e" catches every exception of the try block
except_catches(exc) == exc \in {"backend", "parse", "validation"}

\* an exception leaves classify
classify_raises(out) ==
    try_exception(out) # "none" /\ ~except_catches(try_exception(out))

\* the value classify returns (when it returns)
classify(out) ==
    IF try_exception(out) # "none"
    THEN SafeDefault
    ELSE [intent |-> intent_enum_of(dict_get(out.intent, "general_qa")),
          confidence |-> dict_get_tagged(out.confidence, 0),
          entities |-> dict_get(out.entities, "empty"),
          suggested_prompt_template |-> resolve_template(out),
          requires_clarification |-> resolve_clarification(out)]

NoResult == [intent |-> "<none>"]

\* Classifier outputs: a failed chain call, or a parsed JSON object.
ConfidenceValues == {0, 50, 69, 70, 95, 100}
IntentStrings == IntentType \cup {MISSING, "unknown_label"}
TemplateStrings ==
    allowed_template_ids \cup {MISSING, "", "template_id", "nonexistent_v1"}

FailedOutputs ==
    [chain : {"backend_error", "parse_error"}, intent : {MISSING},
     confidence : {Absent}, entities : {MISSING},
     suggested_prompt_template : {MISSING}, requires_clarification : {Absent}]

ParsedOutputs ==
    [chain : {"ok"}, intent : IntentStrings,
     confidence : {Absent, Bad} \cup {Num(n) : n \in ConfidenceValues},
     entities : {MISSING, "empty", "some", INVALID},
     suggested_prompt_template : TemplateStrings,
     requires_clarification : {Absent, Bad, Bool(TRUE), Bool(FALSE)}]

ClassifierOutputs == FailedOutputs \cup ParsedOutputs

-----------------------------------------------------------------------------
(* EnsembleRetriever                                                       *)

NumSources == 2
MaxDocs == 2
Contents == {"alpha", "beta", "gamma"}

Sources == 1..NumSources

Document(content, i) == [page_content |-> content, source |-> i]

Pending == [kind |-> "pending"]
Failed == [kind |-> "exception"]
Returned(list) == [kind |-> "list", docs |-> list]

\* the lists of at most MaxDocs documents retriever i can yield
DocLists(i) ==
    UNION {[1..n -> {Document(c, i) : c \in Contents}] : n \in 0..MaxDocs}

\* what retriever i's ainvoke does: yields a list, or raises
SourceOutcomes(i) == {Failed} \cup {Returned(l) : l \in DocLists(i)}

\* a retriever whose ainvoke never completes
Hangs == [kind |-> "hangs"]

\* what retriever i's ainvoke does: yields a list, raises, or never completes
SourceBehaviours(i) == SourceOutcomes(i) \cup {Hangs}

\* the loop of _rerank, from position k with the contents seen so far
RECURSIVE rerank_loop(_, _, _, _)
rerank_loop(list, k, seen, unique) ==
    IF k > Len(list) THEN unique
    ELSE IF list[k].page_content \notin seen
         THEN rerank_loop(list, k + 1, seen \cup {list[k].page_content},
                          Append(unique, list[k]))
         ELSE rerank_loop(list, k + 1, seen, unique)

\* (mutant) "seen" kept on the retriever between calls
rerank_remembers_seen(list) ==
    rerank_loop(list, 1,
                {first_docs[k].page_content : k \in 1..Len(first_docs)}, <<>>)

\* (mutant) _rerank without the "not in seen" test
rerank_keeps_duplicates(list) == list

\* _rerank: deduplication on page_content, first occurrence kept
rerank(list) == rerank_loop(list, 1, {}, <<>>)

\* "for i, res in enumerate(results): if isinstance(res, list): extend"
RECURSIVE collect(_, _)
collect(res, i) ==
    IF i > Len(res) THEN <<>>
    ELSE (IF res[i].kind = "list" THEN res[i].docs ELSE <<>>) \o collect(res, i + 1)

\* (mutant) results taken as the tasks complete (asyncio.as_completed)
gather_results_as_completed(res, order) ==
    [k \in 1..Len(order) |-> res[order[k]]]

\* "results = await asyncio.gather(*tasks, return_exceptions=True)": the
\* results come in the order of the tasks, whatever order they settled in
gather_results(res, order) == res

\* the value _aget_relevant_documents returns for the settled results
aget_relevant_documents(res) == rerank(collect(res, 1))

\* every way the first n retrievers' ainvoke calls can end
RECURSIVE OutcomeTuples(_)
OutcomeTuples(n) ==
    IF n = 0 THEN {<<>>}
    ELSE {Append(t, o) : t \in OutcomeTuples(n - 1), o \in SourceOutcomes(n)}

\* every behaviour of the first n retrievers, a call that never completes
\* included
RECURSIVE BehaviourTuples(_)
BehaviourTuples(n) ==
    IF n = 0 THEN {<<>>}
    ELSE {Append(t, o) : t \in BehaviourTuples(n - 1), o \in SourceBehaviours(n)}

\* every list RetrievalService.retrieve can return: the merge of some outcomes
MergedResults ==
    {aget_relevant_documents(res) : res \in OutcomeTuples(NumSources)}

-----------------------------------------------------------------------------
(* RAGPipeline                                                             *)

\* PipelineStage, in the order execute runs the stages
StageOrder ==
    <<"query_parse", "intent_classify", "retrieve", "rerank", "context_build",
      "prompt_assemble", "generate", "post_process">>

Stages == {StageOrder[i] : i \in 1..Len(StageOrder)}

stage_index(stage) == CHOOSE i \in 1..Len(StageOrder) : StageOrder[i] = stage

\* (mutant) execute with the RETRIEVE and RERANK calls in the other order
next_stage_rerank_first(stage) ==
    CASE stage = "intent_classify" -> "rerank"
      [] stage = "rerank" -> "retrieve"
      [] stage = "retrieve" -> "context_build"
      [] stage = "post_process" -> "end"
      [] OTHER -> StageOrder[stage_index(stage) + 1]

\* the stage execute runs after `stage`, "end" after the last one
next_stage(stage) ==
    IF stage_index(stage) = Len(StageOrder) THEN "end"
    ELSE StageOrder[stage_index(stage) + 1]

\* Optional[...] fields
None == [t |-> "None"]
Some(value) == [t |-> "Some", v |-> value]

\* PipelineContext(query=query, **kwargs)
PipelineContext ==
    [intent |-> None, retrieval_results |-> None, response |-> None,
     metadata |-> <<>>]

ClarificationText == "I need more information to understand your question..."

\* the lists a RETRIEVE handler stores in ctx.retrieval_results
RetrievedLists ==
    {[k \in 1..n |-> Document("alpha", k)] : n \in 0..MaxDocs}

\* The contexts a registered handler can hand back.  Handlers are the callables
\* given to register_node: the intent handler decides ctx.intent, the retrieve
\* handler fills ctx.retrieval_results, the generate handler sets ctx.response,
\* the other stages pass the context on.
handler_returns(stage, c) ==
    CASE stage = "intent_classify" ->
            {c} \cup {[c EXCEPT !.intent = Some([requires_clarification |-> b])] :
                        b \in BOOLEAN}
      [] stage = "retrieve" ->
            {[c EXCEPT !.retrieval_results = Some(l)] : l \in RetrievedLists}
      [] stage = "generate" -> {[c EXCEPT !.response = Some("answer")]}
      [] OTHER -> {c}

MaxMiddlewares == 2

\* a middleware: which of the two hooks it has (the hasattr tests); one with
\* neither hook is never called by _execute_stage and is left out
MiddlewareKinds ==
    {m \in [before : BOOLEAN, after : BOOLEAN] : m.before \/ m.after}

\* the lists add_middleware can have built
MiddlewareLists == UNION {[1..n -> MiddlewareKinds] : n \in 0..MaxMiddlewares}

\* one call _execute_stage makes: a hook of middleware mw, or the handler
Call(hook, mw, stage) == [hook |-> hook, mw |-> mw, stage |-> stage]

\* the hook calls of one loop over self.middlewares, visiting the positions
\* of `order` and skipping the middlewares without the hook
RECURSIVE hook_calls(_, _, _, _, _)
hook_calls(mws, order, k, hook, stage) ==
    IF k > Len(order) THEN <<>>
    ELSE (IF mws[order[k]][hook] THEN <<Call(hook, order[k], stage)>> ELSE <<>>)
         \o hook_calls(mws, order, k + 1, hook, stage)

\* "for middleware in self.middlewares" of the first loop
before_order(mws) == [k \in 1..Len(mws) |-> k]

\* (mutant) the post loop unwinding the middlewares in reverse
after_order_reversed(mws) == [k \in 1..Len(mws) |-> Len(mws) + 1 - k]

\* "for middleware in self.middlewares" of the second loop
after_order(mws) == [k \in 1..Len(mws) |-> k]

\* the calls of one _execute_stage with a registered handler, in order
stage_calls(mws, stage) ==
    hook_calls(mws, before_order(mws), 1, "before", stage)
    \o <<Call("handler", 0, stage)>>
    \o hook_calls(mws, after_order(mws), 1, "after", stage)

\* The contexts a call can hand back: a hook transforms the context (here it
\* records itself in ctx.metadata), a handler does what handler_returns says.
call_returns(call, c) ==
    IF call.hook = "handler" THEN handler_returns(call.stage, c)
    ELSE {[c EXCEPT !.metadata = Append(@, call)]}

\* one entry of the call trace
Entry(call, received, returned, raised) ==
    [hook |-> call.hook, mw |-> call.mw, stage |-> call.stage,
     received |-> received, returned |-> returned, raised |-> raised]

\* (mutant) a failing hook is skipped and the stage goes on
hook_exception_swallowed(call) == call.hook = "handler"

\* nothing in _execute_stage or execute catches: an exception of a hook or
\* of the handler leaves the coroutine
exception_propagates(call) == TRUE

\* "ctx = await ...": the calls from position k on, each receiving the
\* context the previous one returned; every call returns or raises
RECURSIVE run_calls(_, _, _, _)
run_calls(calls, k, c, tr) ==
    IF k > Len(calls)
    THEN {[raised |-> FALSE, ctx |-> c, trace |-> tr]}
    ELSE (IF exception_propagates(calls[k])
          THEN {[raised |-> TRUE, ctx |-> c,
                 trace |-> Append(tr, Entry(calls[k], c, c, TRUE))]}
          ELSE run_calls(calls, k + 1, c,
                         Append(tr, Entry(calls[k], c, c, TRUE))))
         \cup UNION {run_calls(calls, k + 1, r,
                               Append(tr, Entry(calls[k], c, r, FALSE))) :
                        r \in call_returns(calls[k], c)}

\* the handler was called in this run
handler_called(tr) == \E k \in 1..Len(tr) : tr[k].hook = "handler"

\* (mutant) "node = self.nodes[stage]" without the membership test
execute_stage_requires_handler(registered, mws, stage, c) ==
    IF stage \notin registered
    THEN {[raised |-> TRUE, called |-> FALSE, ctx |-> c, trace |-> <<>>]}
    ELSE {[raised |-> r.raised, called |-> handler_called(r.trace),
           ctx |-> r.ctx, trace |-> r.trace] :
             r \in run_calls(stage_calls(mws, stage), 1, c, <<>>)}

\* _execute_stage: pass-through when no handler is registered; otherwise the
\* before hooks, the handler and the after hooks are called in turn.
execute_stage(registered, mws, stage, c) ==
    IF stage \notin registered
    THEN {[raised |-> FALSE, called |-> FALSE, ctx |-> c, trace |-> <<>>]}
    ELSE {[raised |-> r.raised, called |-> handler_called(r.trace),
           ctx |-> r.ctx, trace |-> r.trace] :
             r \in run_calls(stage_calls(mws, stage), 1, c, <<>>)}

\* "ctx.intent and ctx.intent.requires_clarification"
needs_clarification(c) ==
    c.intent # None /\ c.intent.v.requires_clarification

\* (mutant) execute without the early return
execute_never_returns_early(stage, c) == FALSE

\* execute returns early after this stage
execute_returns_early(stage, c) ==
    stage = "intent_classify" /\ needs_clarification(c)

\* one SSE event (_format_sse), with the payload fields the kinds carry
Event(kind, stage, content, found, citations) ==
    [kind |-> kind, stage |-> stage, content |-> content, found |-> found,
     citations |-> citations]

Status(stage) == Event("status", stage, "", 0, <<>>)
Clarification == Event("clarification", "", "", 0, <<>>)
\* (mutant) the retrieval yield repeating the status event instead
retrieval_event_missing(list) == Event("status", "retrieving", "", 0, <<>>)

\* the retrieval event: found = len(docs)
Retrieval(list) == Event("retrieval", "", "", Len(list), <<>>)
Token(content) == Event("token", "", content, 0, <<>>)
Error == Event("error", "", "", 0, <<>>)

\* the slice bound of the citation preview
PreviewLen == 100

\* a text is a sequence of characters; the texts of the documents' contents:
\* one shorter than the preview bound, one of exactly that length, one longer
Repeat(c, n) == [k \in 1..n |-> c]
Text(name) ==
    CASE name = "alpha" -> <<"a", "l", "p", "h", "a">>
      [] name = "beta" -> Repeat("b", PreviewLen)
      [] OTHER -> Repeat("g", PreviewLen + 20)

\* "content[:100]": the first 100 characters, the whole text when shorter
slice(text, n) == SubSeq(text, 1, IF Len(text) < n THEN Len(text) ELSE n)

\* "r.content[:100] + '...'" / "d.page_content[:100] + '...'"
content_preview(text) == slice(text, PreviewLen) \o <<".", ".", ".">>

\* one citation per retrieved document
citation(d) ==
    [source |-> d.source, content |-> content_preview(Text(d.page_content))]

\* (mutant) the done event without its citations
done_without_citations(list) == Event("done", "", "", 0, <<>>)

\* the done event: one citation per document of the list
Done(list) ==
    Event("done", "", "", 0, [k \in 1..Len(list) |-> citation(list[k])])

\* "ctx.retrieval_results if ctx.retrieval_results else []"
results_or_empty(c) ==
    IF c.retrieval_results = None THEN <<>> ELSE c.retrieval_results.v

\* the increments _execute_stream_stage yields
DummyTokens == <<"This ", "is ", "a ", "streaming ", "response.">>
stream_stage_tokens(registered) ==
    IF "generate" \notin registered THEN <<"">> ELSE DummyTokens

-----------------------------------------------------------------------------
(* IntentService.classify as a process                                     *)

intentIdle == intent_pc = "idle" /\ intent_result = NoResult
retrIdle ==
    /\ source_outcome = <<>>
    /\ results = <<>>
    /\ retr_pc = "idle"
    /\ unique_docs = <<>>
    /\ settled_order = <<>>
    /\ call_no = 0
    /\ first_docs = <<>>
reqIdle ==
    /\ api = "none"
    /\ nodes = {}
    /\ middlewares = <<>>
    /\ pc = "idle"
    /\ ctx = PipelineContext
    /\ invoked = <<>>
    /\ trace = <<>>
    /\ source_calls = 0
    /\ retrieval = None
    /\ reply = None
    /\ events = <<>>
    /\ docs = <<>>
    /\ tokens_out = <<>>
    /\ full_response = <<>>
    /\ llm_stream = "unopened"
    /\ consumer = "attached"
    /\ outcome = "idle"

citeIdle == cite_site = "none" /\ cite_text = <<>> /\ cite_content = None
bailianIdle ==
    /\ bl_method = "none" /\ bl_super = [chunks |-> <<>>, failure |-> None]
    /\ bl_pc = "idle" /\ bl_chunks = <<>> /\ bl_raised = None
regIdle ==
    /\ rg_middlewares = <<>> /\ rg_nodes = <<>> /\ rg_pc = "idle"
    /\ rg_index = 0 /\ rg_node = 0 /\ rg_trace = <<>>
    /\ rg_entry = <<>> /\ rg_count = 0
agreeIdle == ag_in = <<>> /\ ag_chat = <<>> /\ ag_stream = <<>>
pureIdle == citeIdle /\ bailianIdle /\ regIdle /\ agreeIdle

InitClassify ==
    /\ llm_output \in ClassifierOutputs
    /\ intent_pc = "call"
    /\ intent_result = NoResult
    /\ retrIdle
    /\ reqIdle
    /\ pureIdle

\* await classify(query): the try block, and the except branch when it raises
Classify ==
    /\ intent_pc = "call"
    /\ IF classify_raises(llm_output)
       THEN intent_pc' = "raised" /\ UNCHANGED intent_result
       ELSE intent_pc' = "returned" /\ intent_result' = classify(llm_output)
    /\ UNCHANGED <<llm_output, retrVars, reqVars, pureVars>>

NextClassify == Classify

SpecClassify == InitClassify /\ [][NextClassify]_vars

-----------------------------------------------------------------------------
(* EnsembleRetriever._aget_relevant_documents as a process                 *)

InitRetrieve ==
    /\ source_outcome \in BehaviourTuples(NumSources)
    /\ results = [i \in Sources |-> Pending]
    /\ retr_pc = "gather"
    /\ unique_docs = <<>>
    /\ settled_order = <<>>
    /\ call_no = 1
    /\ first_docs = <<>>
    /\ llm_output = [chain |-> "none"]
    /\ intentIdle
    /\ reqIdle
    /\ pureIdle

\* one of the tasks handed to asyncio.gather settles, in any order; with
\* return_exceptions=True an exception is stored as that task's result.
\* Nothing bounds a call that never completes.
TaskSettles(i) ==
    /\ retr_pc = "gather"
    /\ results[i] = Pending
    /\ source_outcome[i] # Hangs
    /\ results' = [results EXCEPT ![i] = source_outcome[i]]
    /\ settled_order' = Append(settled_order, i)
    /\ UNCHANGED <<source_outcome, retr_pc, unique_docs, call_no, first_docs,
                   intentVars, reqVars, pureVars>>

\* gather returns once every task has settled; the lists are merged
GatherReturns ==
    /\ retr_pc = "gather"
    /\ \A i \in Sources : results[i] # Pending
    /\ unique_docs' =
          aget_relevant_documents(gather_results(results, settled_order))
    /\ retr_pc' = "returned"
    /\ UNCHANGED <<source_outcome, results, settled_order, call_no, first_docs,
                   intentVars, reqVars, pureVars>>

\* RetrievalService.retrieve is called again with the same query; the
\* sources are deterministic
RetrieveAgain ==
    /\ retr_pc = "returned"
    /\ call_no = 1
    /\ call_no' = 2
    /\ first_docs' = unique_docs
    /\ results' = [i \in Sources |-> Pending]
    /\ settled_order' = <<>>
    /\ unique_docs' = <<>>
    /\ retr_pc' = "gather"
    /\ UNCHANGED <<source_outcome, intentVars, reqVars, pureVars>>

NextRetrieve ==
    \/ \E i \in Sources : TaskSettles(i)
    \/ GatherReturns
    \/ RetrieveAgain

SpecRetrieve == InitRetrieve /\ [][NextRetrieve]_vars

-----------------------------------------------------------------------------
(* One request: RAGPipeline.execute, RAGPipeline.execute_stream,           *)
(* RAGService.chat_stream                                                  *)

MaxChunks == 2
Chunks == {"x", "y"}

\* the classifier outputs tried for a whole request
RequestOutputs ==
    FailedOutputs \cup
    {o \in ParsedOutputs :
        /\ o.intent \in {"bug_fix", "casual_chat", "unknown_label"}
        /\ o.confidence \in {Num(69), Num(95)}
        /\ o.entities = MISSING
        /\ o.suggested_prompt_template \in {"nonexistent_v1", "code_explain_v1"}
        /\ o.requires_clarification \in {Absent, Bool(TRUE), Bool(FALSE)}}

Init ==
    /\ api \in {"execute", "execute_stream", "chat", "chat_stream"}
    /\ IF api \in {"chat", "chat_stream"}
       THEN /\ nodes = {} /\ middlewares = <<>>
            /\ llm_output \in RequestOutputs /\ intent_pc = "call"
       ELSE /\ nodes \in SUBSET Stages /\ middlewares \in MiddlewareLists
            /\ llm_output = [chain |-> "none"] /\ intent_pc = "idle"
    /\ intent_result = NoResult
    /\ pc = CASE api = "execute" -> StageOrder[1]
              [] api = "chat" -> "classify"
              [] OTHER -> "start"
    /\ ctx = PipelineContext
    /\ invoked = <<>>
    /\ trace = <<>>
    /\ source_calls = 0
    /\ retrieval = None
    /\ reply = None
    /\ events = <<>>
    /\ docs = <<>>
    /\ tokens_out = <<>>
    /\ full_response = <<>>
    /\ llm_stream = "unopened"
    /\ consumer = "attached"
    /\ outcome = "running"
    /\ retrIdle
    /\ pureIdle

emit(e) == events' = Append(events, e)

\* (mutant) retrieval attempted whatever the intent
retrieval_never_skipped(r) == FALSE

\* "if intent_result.intent != IntentType.CASUAL_CHAT" guards the retrieval
retrieval_skipped(r) == r.intent = "casual_chat"

\* ---- RAGPipeline.execute: one _execute_stage call and the code up to the
\* next await (the clarification check after INTENT_CLASSIFY, the return)
Execute ==
    /\ api = "execute" /\ outcome = "running" /\ pc \in Stages
    /\ \E r \in execute_stage(nodes, middlewares, pc, ctx) :
          /\ invoked' = IF r.called THEN Append(invoked, pc) ELSE invoked
          /\ trace' = trace \o r.trace
          /\ IF r.raised
             THEN outcome' = "raised" /\ UNCHANGED <<pc, ctx>>
             ELSE IF execute_returns_early(pc, r.ctx)
             THEN /\ ctx' = [r.ctx EXCEPT !.response = Some(ClarificationText)]
                  /\ outcome' = "returned"
                  /\ UNCHANGED pc
             ELSE /\ ctx' = r.ctx
                  /\ pc' = next_stage(pc)
                  /\ outcome' = IF pc' = "end" THEN "returned" ELSE "running"
    /\ UNCHANGED <<api, nodes, consumer, llm_stream, full_response, middlewares, source_calls, retrieval, reply, events, docs, tokens_out, intentVars, retrVars, pureVars>>

\* ---- RAGPipeline.execute_stream: each action runs the generator from one
\* yield to the next
ExecuteStreamStart ==
    /\ api = "execute_stream" /\ outcome = "running" /\ pc = "start"
    /\ emit(Status("intent_classify"))
    /\ pc' = "intent_classify"
    /\ UNCHANGED <<api, nodes, consumer, llm_stream, full_response, middlewares, source_calls, retrieval, reply, ctx, invoked, trace, docs, tokens_out, outcome,
                   intentVars, retrVars, pureVars>>

ExecuteStreamIntent ==
    /\ api = "execute_stream" /\ outcome = "running" /\ pc = "intent_classify"
    /\ \E r \in execute_stage(nodes, middlewares, "intent_classify", ctx) :
          /\ invoked' = IF r.called THEN Append(invoked, "intent_classify")
                        ELSE invoked
          /\ trace' = trace \o r.trace
          /\ IF r.raised
             THEN outcome' = "raised" /\ UNCHANGED <<pc, ctx, events>>
             ELSE /\ ctx' = r.ctx
                  /\ UNCHANGED outcome
                  /\ IF needs_clarification(r.ctx)
                     THEN emit(Clarification) /\ pc' = "clarification"
                     ELSE emit(Status("retrieving")) /\ pc' = "retrieve"
    /\ UNCHANGED <<api, nodes, consumer, llm_stream, full_response, middlewares, source_calls, retrieval, reply, docs, tokens_out, intentVars, retrVars, pureVars>>

\* resumed after the clarification event: "return"
ExecuteStreamClarified ==
    /\ api = "execute_stream" /\ outcome = "running" /\ pc = "clarification"
    /\ outcome' = "returned"
    /\ UNCHANGED <<api, nodes, consumer, llm_stream, full_response, middlewares, source_calls, retrieval, reply, pc, ctx, invoked, trace, events, docs, tokens_out,
                   intentVars, retrVars, pureVars>>

ExecuteStreamRetrieve ==
    /\ api = "execute_stream" /\ outcome = "running" /\ pc = "retrieve"
    /\ \E r \in execute_stage(nodes, middlewares, "retrieve", ctx) :
          /\ invoked' = IF r.called THEN Append(invoked, "retrieve") ELSE invoked
          /\ trace' = trace \o r.trace
          /\ IF r.raised
             THEN outcome' = "raised" /\ UNCHANGED <<pc, ctx, events>>
             ELSE /\ ctx' = r.ctx
                  /\ UNCHANGED outcome
                  /\ emit(Retrieval(results_or_empty(r.ctx)))
                  /\ pc' = "generating"
    /\ UNCHANGED <<api, nodes, consumer, llm_stream, full_response, middlewares, source_calls, retrieval, reply, docs, tokens_out, intentVars, retrVars, pureVars>>

ExecuteStreamGenerating ==
    /\ api = "execute_stream" /\ outcome = "running" /\ pc = "generating"
    /\ emit(Status("generating"))
    /\ pc' = "stream"
    /\ UNCHANGED <<api, nodes, consumer, llm_stream, full_response, middlewares, source_calls, retrieval, reply, ctx, invoked, trace, docs, tokens_out, outcome,
                   intentVars, retrVars, pureVars>>

\* "async for token in self._execute_stream_stage(ctx)", then the done event
ExecuteStreamToken ==
    /\ api = "execute_stream" /\ outcome = "running" /\ pc = "stream"
    /\ LET toks == stream_stage_tokens(nodes)
           k == Len(tokens_out) + 1
       IN  IF k <= Len(toks)
           THEN /\ tokens_out' = Append(tokens_out, toks[k])
                /\ emit(Token(toks[k]))
                /\ UNCHANGED pc
           ELSE /\ emit(Done(results_or_empty(ctx)))
                /\ pc' = "finish"
                /\ UNCHANGED tokens_out
    /\ UNCHANGED <<api, nodes, consumer, llm_stream, full_response, middlewares, source_calls, retrieval, reply, ctx, invoked, trace, docs, outcome, intentVars, retrVars, pureVars>>

ExecuteStreamFinish ==
    /\ api = "execute_stream" /\ outcome = "running" /\ pc = "finish"
    /\ outcome' = "returned"
    /\ UNCHANGED <<api, nodes, consumer, llm_stream, full_response, middlewares, source_calls, retrieval, reply, pc, ctx, invoked, trace, events, docs, tokens_out,
                   intentVars, retrVars, pureVars>>

\* ---- RAGService.chat_stream: each action runs the generator from one yield
\* to the next

\* the generator advances when its consumer asks for the next event
ChatStreamResumed ==
    api = "chat_stream" /\ outcome = "running" /\ consumer = "attached"

\* (mutant) full_response = chunk
accumulate_overwrites(full, chunk) == <<chunk>>

\* "full_response += chunk"
accumulate(full, chunk) == Append(full, chunk)

ChatStreamStart ==
    /\ ChatStreamResumed /\ pc = "start"
    /\ emit(Status("intent_classify"))
    /\ pc' = "intent_classify"
    /\ UNCHANGED <<api, nodes, consumer, llm_stream, full_response, middlewares, source_calls, retrieval, reply, ctx, invoked, trace, docs, tokens_out, outcome,
                   intentVars, retrVars, pureVars>>

ChatStreamClassify ==
    /\ ChatStreamResumed /\ pc = "intent_classify"
    /\ IF classify_raises(llm_output)
       THEN /\ intent_pc' = "raised"
            /\ outcome' = "raised"
            /\ UNCHANGED <<intent_result, pc, events>>
       ELSE /\ intent_pc' = "returned"
            /\ intent_result' = classify(llm_output)
            /\ UNCHANGED outcome
            /\ IF intent_result'.requires_clarification
               THEN emit(Clarification) /\ pc' = "clarification"
               ELSE emit(Status("retrieving")) /\ pc' = "retrieve"
    /\ UNCHANGED <<api, nodes, consumer, llm_stream, full_response, middlewares, source_calls, retrieval, reply, ctx, invoked, trace, docs, tokens_out, llm_output,
                   retrVars, pureVars>>

\* (mutant) the "return" after the clarification event still in place
clarification_return_kept == TRUE

\* "# return  <-- Removed this return to allow the flow to continue"
clarification_ends_chat_stream == FALSE

\* resumed after the clarification event: the flow continues
ChatStreamClarified ==
    /\ ChatStreamResumed /\ pc = "clarification"
    /\ IF clarification_ends_chat_stream
       THEN outcome' = "returned" /\ UNCHANGED <<pc, events>>
       ELSE /\ emit(Status("retrieving"))
            /\ pc' = "retrieve"
            /\ UNCHANGED outcome
    /\ UNCHANGED <<api, nodes, consumer, llm_stream, full_response, middlewares, source_calls, retrieval, reply, ctx, invoked, trace, docs, tokens_out,
                   intentVars, retrVars, pureVars>>

\* retrieval: skipped for casual_chat; otherwise retrieve returns a merged
\* list, or raises and the except branch yields an error event
ChatStreamRetrieve ==
    /\ ChatStreamResumed /\ pc = "retrieve"
    /\ IF ~retrieval_skipped(intent_result)
       THEN /\ source_calls' = source_calls + NumSources
            /\ \/ \E l \in MergedResults :
                    /\ docs' = l
                    /\ emit(Retrieval(l))
                    /\ pc' = "prompt"
               \/ /\ docs' = <<>>
                  /\ emit(Error)
                  /\ pc' = "retrieval_failed"
       ELSE /\ docs' = <<>>
            /\ emit(Retrieval(<<>>))
            /\ pc' = "prompt"
            /\ UNCHANGED source_calls
    /\ UNCHANGED <<api, nodes, consumer, llm_stream, full_response, middlewares, retrieval, reply, ctx, invoked, trace,
                   tokens_out, outcome, intentVars, retrVars, pureVars>>

\* resumed after the error event: "Proceed with empty docs"
ChatStreamAfterError ==
    /\ ChatStreamResumed /\ pc = "retrieval_failed"
    /\ emit(Retrieval(docs))
    /\ pc' = "prompt"
    /\ UNCHANGED <<api, nodes, consumer, llm_stream, full_response, middlewares, source_calls, retrieval, reply, ctx, invoked, trace, docs, tokens_out, outcome,
                   intentVars, retrVars, pureVars>>

ChatStreamGenerating ==
    /\ ChatStreamResumed /\ pc = "prompt"
    /\ emit(Status("generating"))
    /\ pc' = "stream"
    /\ UNCHANGED <<api, nodes, consumer, llm_stream, full_response, middlewares, source_calls, retrieval, reply, ctx, invoked, trace, docs, tokens_out, outcome,
                   intentVars, retrVars, pureVars>>

\* "async for chunk in chain.astream(...)": the backend yields an increment,
\* ends its stream, or raises; nothing in chat_stream catches the exception
ChatStreamChunk ==
    /\ ChatStreamResumed /\ pc = "stream"
    /\ \/ /\ Len(tokens_out) < MaxChunks
          /\ \E chunk \in Chunks :
                /\ tokens_out' = Append(tokens_out, chunk)
                /\ full_response' = accumulate(full_response, chunk)
                /\ emit(Token(chunk))
          /\ llm_stream' = "open"
          /\ UNCHANGED <<pc, outcome>>
       \/ /\ emit(Done(docs))
          /\ pc' = "finish"
          /\ llm_stream' = "closed"
          /\ UNCHANGED <<tokens_out, full_response, outcome>>
       \/ /\ outcome' = "raised"
          /\ llm_stream' = "closed"
          /\ UNCHANGED <<pc, events, tokens_out, full_response>>
    /\ UNCHANGED <<api, nodes, consumer, middlewares, source_calls, retrieval,
                   reply, ctx, invoked, trace, docs, intentVars, retrVars,
                   pureVars>>

ChatStreamFinish ==
    /\ ChatStreamResumed /\ pc = "finish"
    /\ outcome' = "returned"
    /\ UNCHANGED <<api, nodes, consumer, llm_stream, full_response, middlewares, source_calls, retrieval, reply, pc, ctx, invoked, trace, events, docs, tokens_out,
                   intentVars, retrVars, pureVars>>

\* ---- RAGService.chat: one action per await

\* what each document source does during a request: it fails, or returns the
\* first n documents of its index
RequestContents == <<"alpha", "beta", "gamma">>
RequestDocLists(i) ==
    {[k \in 1..n |-> Document(RequestContents[((k - 1) % 3) + 1], i)] :
        n \in 0..MaxDocs}
RECURSIVE RequestOutcomeTuples(_)
RequestOutcomeTuples(n) ==
    IF n = 0 THEN {<<>>}
    ELSE {Append(t, o) : t \in RequestOutcomeTuples(n - 1),
                         o \in {Failed} \cup {Returned(l) : l \in RequestDocLists(n)}}

\* (mutant) chat without the try/except around the retrieve call
chat_except_catches_nothing(exc) == FALSE

\* "except Exception as e" around "await self.retrieval_service.retrieve"
chat_except_catches(exc) == exc \in {"retrieval"}

\* the citations list of the returned dict, one entry per document
chat_citations(list) == [k \in 1..Len(list) |-> citation(list[k])]

\* "intent_result = await self.intent_service.classify(query)"
ChatClassify ==
    /\ api = "chat" /\ outcome = "running" /\ pc = "classify"
    /\ IF classify_raises(llm_output)
       THEN /\ intent_pc' = "raised"
            /\ outcome' = "raised"
            /\ UNCHANGED <<intent_result, pc>>
       ELSE /\ intent_pc' = "returned"
            /\ intent_result' = classify(llm_output)
            /\ pc' = "retrieve"
            /\ UNCHANGED outcome
    /\ UNCHANGED <<api, nodes, consumer, llm_stream, full_response, middlewares, source_calls, retrieval, reply, ctx,
                   invoked, trace, events, docs, tokens_out, llm_output,
                   retrVars, pureVars>>

\* "docs = []", then the retrieval unless the intent is casual_chat: the
\* ensemble calls every source and merges what the successful ones returned,
\* or the retrieve call raises and the except branch leaves docs empty
ChatRetrieve ==
    /\ api = "chat" /\ outcome = "running" /\ pc = "retrieve"
    /\ IF retrieval_skipped(intent_result)
       THEN /\ docs' = <<>>
            /\ retrieval' = Some([kind |-> "skipped", outcomes |-> <<>>])
            /\ pc' = "generate"
            /\ UNCHANGED <<source_calls, outcome>>
       ELSE /\ source_calls' = source_calls + NumSources
            /\ \/ \E res \in RequestOutcomeTuples(NumSources) :
                    /\ docs' = aget_relevant_documents(res)
                    /\ retrieval' = Some([kind |-> "returned", outcomes |-> res])
                    /\ pc' = "generate"
                    /\ UNCHANGED outcome
               \/ /\ retrieval' = Some([kind |-> "raised", outcomes |-> <<>>])
                  /\ IF chat_except_catches("retrieval")
                     THEN docs' = <<>> /\ pc' = "generate" /\ UNCHANGED outcome
                     ELSE outcome' = "raised" /\ UNCHANGED <<docs, pc>>
    /\ UNCHANGED <<api, nodes, consumer, llm_stream, full_response, middlewares, reply, ctx, invoked, trace, events,
                   tokens_out, intentVars, retrVars, pureVars>>

\* the ids self.prompt_templates holds
prompt_templates ==
    {"default_v1", "code_search_v1", "code_explain_v1", "general_qa_v1",
     "casual_chat_v1"}

\* self.prompt_templates.get(template_id, self.prompt_templates["default_v1"]),
\* as the id the template it returns is registered under
prompt_templates_get(template_id) ==
    IF template_id \in prompt_templates THEN template_id ELSE "default_v1"

\* "response_text = await chain.ainvoke(...)" and the returned dict; nothing
\* in chat catches an exception of the chain
ChatGenerate ==
    /\ api = "chat" /\ outcome = "running" /\ pc = "generate"
    /\ \/ /\ reply' = Some([response |-> "answer",
                            intent |-> intent_result,
                            citations |-> chat_citations(docs),
                            rendered |->
                                prompt_templates_get(
                                    intent_result.suggested_prompt_template),
                            template_used |->
                                intent_result.suggested_prompt_template])
          /\ outcome' = "returned"
       \/ /\ outcome' = "raised"
          /\ UNCHANGED reply
    /\ UNCHANGED <<api, nodes, consumer, llm_stream, full_response, middlewares, source_calls, retrieval, pc, ctx,
                   invoked, trace, events, docs, tokens_out, intentVars,
                   retrVars, pureVars>>

\* ---- the consumer of the /stream response detaches

\* the awaits of chat_stream: classify, retrieve, the next increment
AwaitOf(p) ==
    CASE p = "intent_classify" -> "await_classify"
      [] p = "retrieve" -> "await_retrieve"
      [] p = "stream" -> "await_chunk"
      [] OTHER -> "none"
AwaitPcs == {"await_classify", "await_retrieve", "await_chunk"}

\* the segment after the yield at p has an await (the retrieval is skipped
\* for casual_chat)
HasAwait(p) ==
    /\ AwaitOf(p) # "none"
    /\ p = "retrieve" => ~retrieval_skipped(intent_result)

\* the consumer detaches while the generator is suspended at a yield (or was
\* never started)
DetachAtYield ==
    /\ ChatStreamResumed
    /\ consumer' = "detached"
    /\ UNCHANGED <<api, nodes, llm_stream, full_response, middlewares,
                   source_calls, retrieval, reply, pc, ctx, invoked, trace,
                   events, docs, tokens_out, outcome, intentVars, retrVars,
                   pureVars>>

\* the consumer asked for the next event and detaches while the generator
\* waits at its next await: the awaited call has been made
DetachDuringAwait ==
    /\ ChatStreamResumed
    /\ HasAwait(pc)
    /\ pc = "stream" => Len(tokens_out) < MaxChunks
    /\ consumer' = "detached"
    /\ pc' = AwaitOf(pc)
    /\ source_calls' = IF pc = "retrieve" THEN source_calls + NumSources
                       ELSE source_calls
    /\ llm_stream' = IF pc = "stream" THEN "open" ELSE llm_stream
    /\ UNCHANGED <<api, nodes, full_response, middlewares, retrieval, reply,
                   ctx, invoked, trace, events, docs, tokens_out, outcome,
                   intentVars, retrVars, pureVars>>

\* (mutant) "except BaseException" around the retrieval
stream_except_catches_all(exc) == TRUE

\* "except Exception as e" around the retrieval: CancelledError and
\* GeneratorExit derive from BaseException
stream_except_catches(exc) == exc \notin {"CancelledError", "GeneratorExit"}

\* what is thrown into the generator when its consumer is gone: the
\* cancellation at an await, the close at a yield
thrown_at(p) == IF p \in AwaitPcs THEN "CancelledError" ELSE "GeneratorExit"

\* the generator is cancelled or closed: the exception leaves chat_stream
\* unless the handler around the suspension point catches it; unwinding
\* closes the chain.astream iterator
ChatStreamCancelled ==
    /\ api = "chat_stream" /\ outcome = "running" /\ consumer = "detached"
    /\ IF pc = "await_retrieve" /\ stream_except_catches(thrown_at(pc))
       THEN /\ emit(Error)
            /\ pc' = "retrieval_failed"
            /\ UNCHANGED <<outcome, llm_stream>>
       ELSE /\ outcome' = "cancelled"
            /\ llm_stream' = IF llm_stream = "open" THEN "closed"
                              ELSE llm_stream
            /\ UNCHANGED <<pc, events>>
    /\ UNCHANGED <<api, nodes, consumer, full_response, middlewares,
                   source_calls, retrieval, reply, ctx, invoked, trace, docs,
                   tokens_out, intentVars, retrVars, pureVars>>

Next ==
    \/ Execute
    \/ ExecuteStreamStart
    \/ ExecuteStreamIntent
    \/ ExecuteStreamClarified
    \/ ExecuteStreamRetrieve
    \/ ExecuteStreamGenerating
    \/ ExecuteStreamToken
    \/ ExecuteStreamFinish
    \/ ChatClassify
    \/ ChatRetrieve
    \/ ChatGenerate
    \/ ChatStreamStart
    \/ ChatStreamClassify
    \/ ChatStreamClarified
    \/ ChatStreamRetrieve
    \/ ChatStreamAfterError
    \/ ChatStreamGenerating
    \/ ChatStreamChunk
    \/ ChatStreamFinish
    \/ DetachAtYield
    \/ DetachDuringAwait
    \/ ChatStreamCancelled

Spec == Init /\ [][Next]_vars

-----------------------------------------------------------------------------
(* The citation of one document: the comprehension element of              *)
(* _extract_citations, chat and chat_stream                                 *)

MaxContentLen == 102
CitationSites == {"_extract_citations", "chat", "chat_stream"}

InitCitation ==
    /\ cite_site \in CitationSites
    /\ cite_text \in {Repeat("x", n) : n \in 0..MaxContentLen}
    /\ cite_content = None
    /\ bailianIdle /\ regIdle /\ agreeIdle
    /\ intent_pc = "idle" /\ intent_result = NoResult
    /\ llm_output = [chain |-> "none"]
    /\ retrIdle
    /\ reqIdle

\* "content": r.content[:100] + "..." -- the same expression at the three sites
Cite ==
    /\ cite_site \in CitationSites
    /\ cite_content = None
    /\ cite_content' = Some(content_preview(cite_text))
    /\ UNCHANGED <<cite_site, cite_text, bailianVars, regVars, agreeVars,
                   intentVars, retrVars,
                   reqVars>>

NextCitation == Cite

SpecCitation == InitCitation /\ [][NextCitation]_vars

-----------------------------------------------------------------------------
\* BailianChatOpenAI: the four overridden methods around one ChatOpenAI call.
\* An exception is its class, its message as a sequence of text fragments, and
\* its __cause__.

MaxSuperChunks == 2
MaxMessageLen == 2

NoChunksMarker == "No generation chunks were returned"
NullChoicesMarker == "null value for 'choices'"
MessageFragments ==
    {NoChunksMarker, NullChoicesMarker, "No generation chunks", "Connection error."}
SeqsUpTo(S, n) == UNION {[1..k -> S] : k \in 0..n}
Exc(kind, message, cause) == [kind |-> kind, message |-> message, cause |-> cause]
SuperFailures ==
    {Exc(k, m, None) : k \in {"ValueError", "APIConnectionError"},
                       m \in SeqsUpTo(MessageFragments, MaxMessageLen)}
GenerateMethods == {"_generate", "_agenerate"}
StreamMethods == {"_stream", "_astream"}

\* str(e)
str(e) == e.message
\* marker in error_str
contains(error_str, marker) == \E i \in 1..Len(error_str) : error_str[i] = marker

InvalidResponse(e) ==
    Exc("ValueError",
        <<"Aliyun Bailian API returned an invalid response. ",
          "This usually means authentication failed or the model is incorrect. ",
          "Please check your API Key, Model Name, and permissions in Bailian Console.">>,
        Some(e))

\* (mutant) the handler never recognising a marker
handle_bailian_error_returns(e) == None
\* what _handle_bailian_error(e) raises; None when it returns
handle_bailian_error(e) ==
    IF \/ contains(str(e), NoChunksMarker)
       \/ contains(str(e), NullChoicesMarker)
    THEN Some(InvalidResponse(e))
    ELSE None

\* except Exception as e: self._handle_bailian_error(e); raise e
except_clause(e) ==
    LET r == handle_bailian_error(e)
    IN  IF r # None THEN r.v ELSE e

InitBailian ==
    /\ bl_method \in GenerateMethods \cup StreamMethods
    /\ bl_super \in [chunks : {Repeat("chunk", n) : n \in 0..MaxSuperChunks},
                      failure : {None} \cup {Some(e) : e \in SuperFailures}]
    /\ bl_pc = "running" /\ bl_chunks = <<>> /\ bl_raised = None
    /\ citeIdle /\ regIdle /\ agreeIdle
    /\ intent_pc = "idle" /\ intent_result = NoResult
    /\ llm_output = [chain |-> "none"]
    /\ retrIdle
    /\ reqIdle

\* _generate / _agenerate: return super()'s result, or run the except clause
BailianGenerate ==
    /\ bl_method \in GenerateMethods /\ bl_pc = "running"
    /\ IF bl_super.failure = None
       THEN /\ bl_pc' = "returned"
            /\ bl_chunks' = bl_super.chunks
            /\ UNCHANGED bl_raised
       ELSE /\ bl_pc' = "raised"
            /\ bl_raised' = Some(except_clause(bl_super.failure.v))
            /\ UNCHANGED bl_chunks
    /\ UNCHANGED <<bl_method, bl_super, citeVars, regVars, agreeVars,
                   intentVars, retrVars,
                   reqVars>>

\* _stream / _astream, one resumption: pass on super()'s next chunk, or end
\* when it ends, or run the except clause when it raises
BailianStreamNext ==
    /\ bl_method \in StreamMethods /\ bl_pc = "running"
    /\ IF Len(bl_chunks) < Len(bl_super.chunks)
       THEN /\ bl_chunks' = Append(bl_chunks, bl_super.chunks[Len(bl_chunks) + 1])
            /\ UNCHANGED <<bl_pc, bl_raised>>
       ELSE IF bl_super.failure = None
       THEN /\ bl_pc' = "returned"
            /\ UNCHANGED <<bl_chunks, bl_raised>>
       ELSE /\ bl_pc' = "raised"
            /\ bl_raised' = Some(except_clause(bl_super.failure.v))
            /\ UNCHANGED bl_chunks
    /\ UNCHANGED <<bl_method, bl_super, citeVars, regVars, agreeVars,
                   intentVars, retrVars,
                   reqVars>>

NextBailian == BailianGenerate \/ BailianStreamNext

SpecBailian == InitBailian /\ [][NextBailian]_vars

-----------------------------------------------------------------------------
\* One _execute_stage call on a RAGPipeline that another task of the event
\* loop registers on.  The other task runs only while the coroutine is
\* suspended in an await: in a before_stage hook, in the node, or in an
\* after_stage hook.  A middleware is known by its position in
\* self.middlewares (add_middleware only appends); a handler by a number.

MaxRegistrations == 2
RegStage == "retrieve"
RegStages == {"retrieve", "generate"}
RegAwaitPcs == {"await_before", "await_node", "await_after"}

InitRegistration ==
    /\ rg_middlewares \in MiddlewareLists
    /\ rg_nodes \in [RegStages -> {0, 1}]
    /\ rg_pc = "start" /\ rg_index = 0 /\ rg_node = 0 /\ rg_trace = <<>>
    /\ rg_entry = [middlewares |-> rg_middlewares, nodes |-> rg_nodes]
    /\ rg_count = 0
    /\ citeIdle /\ bailianIdle /\ agreeIdle
    /\ intent_pc = "idle" /\ intent_result = NoResult
    /\ llm_output = [chain |-> "none"]
    /\ retrIdle
    /\ reqIdle

regOthers == <<citeVars, bailianVars, agreeVars, intentVars, retrVars, reqVars>>

\* "if stage not in self.nodes: return ctx" / "node = self.nodes[stage]"
StageEnter ==
    /\ rg_pc = "start"
    /\ IF rg_nodes[RegStage] = 0
       THEN rg_pc' = "returned" /\ UNCHANGED rg_node
       ELSE rg_pc' = "before_loop" /\ rg_node' = rg_nodes[RegStage]
    /\ UNCHANGED <<rg_middlewares, rg_nodes, rg_index, rg_trace, rg_entry,
                   rg_count, regOthers>>

\* "for middleware in self.middlewares": the list iterator reads the list
\* itself at every step
middlewares_iterated == rg_middlewares

\* one step of a for loop: the next middleware, its hook if it has one
LoopStep(loop, hook, await, after_loop) ==
    /\ rg_pc = loop
    /\ IF rg_index < Len(middlewares_iterated)
       THEN /\ rg_index' = rg_index + 1
            /\ IF middlewares_iterated[rg_index + 1][hook]
               THEN /\ rg_trace' = Append(rg_trace, Call(hook, rg_index + 1, RegStage))
                    /\ rg_pc' = await
               ELSE UNCHANGED <<rg_trace, rg_pc>>
       ELSE /\ rg_pc' = after_loop /\ rg_index' = 0
            /\ UNCHANGED rg_trace
    /\ UNCHANGED <<rg_middlewares, rg_nodes, rg_node, rg_entry, rg_count,
                   regOthers>>

BeforeLoop == LoopStep("before_loop", "before", "await_before", "node")
AfterLoop == LoopStep("after_loop", "after", "await_after", "returned")

\* "ctx = await node(ctx)" for a coroutine function, "ctx = node(ctx)"
\* otherwise, which does not suspend
NodeCall ==
    /\ rg_pc = "node"
    /\ rg_trace' = Append(rg_trace, Call("handler", rg_node, RegStage))
    /\ rg_pc' \in {"await_node", "after_loop"}
    /\ UNCHANGED <<rg_middlewares, rg_nodes, rg_index, rg_node, rg_entry,
                   rg_count, regOthers>>

\* the awaited hook or node returns
AwaitReturns ==
    /\ rg_pc \in RegAwaitPcs
    /\ rg_pc' = CASE rg_pc = "await_before" -> "before_loop"
                  [] rg_pc = "await_node" -> "after_loop"
                  [] OTHER -> "after_loop"
    /\ UNCHANGED <<rg_middlewares, rg_nodes, rg_index, rg_node, rg_trace,
                   rg_entry, rg_count, regOthers>>

\* another task: self.middlewares.append(middleware)
add_middleware ==
    /\ rg_pc \in RegAwaitPcs /\ rg_count < MaxRegistrations
    /\ \E middleware \in MiddlewareKinds :
          rg_middlewares' = Append(rg_middlewares, middleware)
    /\ rg_count' = rg_count + 1
    /\ UNCHANGED <<rg_nodes, rg_pc, rg_index, rg_node, rg_trace, rg_entry,
                   regOthers>>

\* another task: self.nodes[stage] = node
register_node ==
    /\ rg_pc \in RegAwaitPcs /\ rg_count < MaxRegistrations
    /\ \E stage \in RegStages :
          rg_nodes' = [rg_nodes EXCEPT ![stage] = 2 + rg_count]
    /\ rg_count' = rg_count + 1
    /\ UNCHANGED <<rg_middlewares, rg_pc, rg_index, rg_node, rg_trace,
                   rg_entry, regOthers>>

NextRegistration ==
    \/ StageEnter \/ BeforeLoop \/ NodeCall \/ AfterLoop \/ AwaitReturns
    \/ add_middleware \/ register_node

SpecRegistration == InitRegistration /\ [][NextRegistration]_vars

-----------------------------------------------------------------------------
\* The same request made twice, through RAGService.chat and then through
\* RAGService.chat_stream, with the classifier, the document sources and the
\* backend answering the same both times.  The backend's answer is a text (a
\* sequence of characters): ainvoke returns it whole, astream in increments
\* that split it at places the backend chooses.

MaxTextLen == 2
BackendTexts == SeqsUpTo(Chunks, MaxTextLen)

\* the classifier outputs tried: those classify turns into a result
AgreeOutputs ==
    {o \in RequestOutputs : ~classify_raises(o) /\ o.confidence = Num(95)}

\* what retrieval_service.retrieve does with the sources' results
RetrieveRaised == [kind |-> "raised"]
RetrieveReturned(res) == [kind |-> "returned", docs |-> aget_relevant_documents(res)]

InitAgree ==
    /\ ag_in \in [out : AgreeOutputs,
                   retrieve : {RetrieveRaised} \cup
                              {RetrieveReturned(res) :
                                  res \in RequestOutcomeTuples(NumSources)},
                   text : BackendTexts]
    /\ ag_chat = [pc |-> "classify", intent |-> NoResult, docs |-> <<>>,
                  decision |-> "none", reply |-> None]
    /\ ag_stream = [pc |-> "start", intent |-> NoResult, docs |-> <<>>,
                    decision |-> "none", template_id |-> "", rendered |-> "",
                    events |-> <<>>, sent |-> 0]
    /\ citeIdle /\ bailianIdle /\ regIdle
    /\ intent_pc = "idle" /\ intent_result = NoResult
    /\ llm_output = [chain |-> "none"]
    /\ retrIdle
    /\ reqIdle

agreeOthers == <<citeVars, bailianVars, regVars, intentVars, retrVars, reqVars>>

\* ---- chat

AgreeChatClassify ==
    /\ ag_chat.pc = "classify"
    /\ ag_chat' = [ag_chat EXCEPT !.pc = "retrieve",
                                  !.intent = classify(ag_in.out)]
    /\ UNCHANGED <<ag_in, ag_stream, agreeOthers>>

\* "docs = []", the retrieval unless casual_chat, the except branch
AgreeChatRetrieve ==
    /\ ag_chat.pc = "retrieve"
    /\ ag_chat' =
          IF retrieval_skipped(ag_chat.intent)
          THEN [ag_chat EXCEPT !.pc = "generate", !.decision = "skipped"]
          ELSE IF ag_in.retrieve.kind = "returned"
          THEN [ag_chat EXCEPT !.pc = "generate", !.decision = "retrieved",
                               !.docs = ag_in.retrieve.docs]
          ELSE IF chat_except_catches("retrieval")
          THEN [ag_chat EXCEPT !.pc = "generate", !.decision = "retrieved"]
          ELSE [ag_chat EXCEPT !.pc = "raised", !.decision = "retrieved"]
    /\ UNCHANGED <<ag_in, ag_stream, agreeOthers>>

\* template selection, "response_text = await chain.ainvoke(...)", the dict
AgreeChatGenerate ==
    /\ ag_chat.pc = "generate"
    /\ ag_chat' =
          [ag_chat EXCEPT
              !.pc = "returned",
              !.reply =
                  Some([response |-> ag_in.text,
                        intent |-> ag_chat.intent,
                        citations |-> chat_citations(ag_chat.docs),
                        rendered |->
                            prompt_templates_get(
                                ag_chat.intent.suggested_prompt_template),
                        template_used |->
                            ag_chat.intent.suggested_prompt_template])]
    /\ UNCHANGED <<ag_in, ag_stream, agreeOthers>>

\* ---- chat_stream, one action per resumption

stream_yields(e) == Append(ag_stream.events, e)

AgreeStreamStart ==
    /\ ag_chat.pc = "returned" /\ ag_stream.pc = "start"
    /\ ag_stream' = [ag_stream EXCEPT
                        !.pc = "intent_classify",
                        !.events = stream_yields(Status("intent_classify"))]
    /\ UNCHANGED <<ag_in, ag_chat, agreeOthers>>

AgreeStreamClassify ==
    /\ ag_stream.pc = "intent_classify"
    /\ LET r == classify(ag_in.out)
       IN  ag_stream' =
             IF r.requires_clarification
             THEN [ag_stream EXCEPT !.pc = "clarification", !.intent = r,
                                    !.events = stream_yields(Clarification)]
             ELSE [ag_stream EXCEPT !.pc = "retrieve", !.intent = r,
                                    !.events = stream_yields(Status("retrieving"))]
    /\ UNCHANGED <<ag_in, ag_chat, agreeOthers>>

AgreeStreamClarified ==
    /\ ag_stream.pc = "clarification"
    /\ ag_stream' =
          IF clarification_ends_chat_stream
          THEN [ag_stream EXCEPT !.pc = "returned"]
          ELSE [ag_stream EXCEPT !.pc = "retrieve",
                                 !.events = stream_yields(Status("retrieving"))]
    /\ UNCHANGED <<ag_in, ag_chat, agreeOthers>>

\* (mutant) chat_stream retrieving for casual_chat too
stream_always_retrieves(r) == FALSE
\* "if intent_result.intent != IntentType.CASUAL_CHAT" of chat_stream
stream_retrieval_skipped(r) == retrieval_skipped(r)

AgreeStreamRetrieve ==
    /\ ag_stream.pc = "retrieve"
    /\ ag_stream' =
          IF stream_retrieval_skipped(ag_stream.intent)
          THEN [ag_stream EXCEPT !.pc = "prompt", !.decision = "skipped",
                                 !.events = stream_yields(Retrieval(<<>>))]
          ELSE IF ag_in.retrieve.kind = "returned"
          THEN [ag_stream EXCEPT
                   !.pc = "prompt", !.decision = "retrieved",
                   !.docs = ag_in.retrieve.docs,
                   !.events = stream_yields(Retrieval(ag_in.retrieve.docs))]
          ELSE IF stream_except_catches("Exception")
          THEN [ag_stream EXCEPT !.pc = "retrieval_failed",
                                 !.decision = "retrieved",
                                 !.events = stream_yields(Error)]
          ELSE [ag_stream EXCEPT !.pc = "raised", !.decision = "retrieved"]
    /\ UNCHANGED <<ag_in, ag_chat, agreeOthers>>

AgreeStreamAfterError ==
    /\ ag_stream.pc = "retrieval_failed"
    /\ ag_stream' = [ag_stream EXCEPT
                        !.pc = "prompt",
                        !.events = stream_yields(Retrieval(ag_stream.docs))]
    /\ UNCHANGED <<ag_in, ag_chat, agreeOthers>>

\* template selection, then the generating status
AgreeStreamGenerating ==
    /\ ag_stream.pc = "prompt"
    /\ ag_stream' =
          [ag_stream EXCEPT
              !.pc = "stream",
              !.template_id = ag_stream.intent.suggested_prompt_template,
              !.rendered =
                  prompt_templates_get(
                      ag_stream.intent.suggested_prompt_template),
              !.events = stream_yields(Status("generating"))]
    /\ UNCHANGED <<ag_in, ag_chat, agreeOthers>>

\* "async for chunk in chain.astream(...)": the next increment of the text,
\* or the done event when the text is exhausted
AgreeStreamChunk ==
    /\ ag_stream.pc = "stream"
    /\ IF ag_stream.sent < Len(ag_in.text)
       THEN \E n \in 1..(Len(ag_in.text) - ag_stream.sent) :
               LET chunk == SubSeq(ag_in.text, ag_stream.sent + 1,
                                   ag_stream.sent + n)
               IN  ag_stream' = [ag_stream EXCEPT
                                    !.sent = ag_stream.sent + n,
                                    !.events = stream_yields(Token(chunk))]
       ELSE ag_stream' = [ag_stream EXCEPT
                             !.pc = "finish",
                             !.events = stream_yields(Done(ag_stream.docs))]
    /\ UNCHANGED <<ag_in, ag_chat, agreeOthers>>

AgreeStreamFinish ==
    /\ ag_stream.pc = "finish"
    /\ ag_stream' = [ag_stream EXCEPT !.pc = "returned"]
    /\ UNCHANGED <<ag_in, ag_chat, agreeOthers>>

NextAgree ==
    \/ AgreeChatClassify \/ AgreeChatRetrieve \/ AgreeChatGenerate
    \/ AgreeStreamStart \/ AgreeStreamClassify \/ AgreeStreamClarified
    \/ AgreeStreamRetrieve \/ AgreeStreamAfterError \/ AgreeStreamGenerating
    \/ AgreeStreamChunk \/ AgreeStreamFinish

SpecAgree == InitAgree /\ [][NextAgree]_vars

-----------------------------------------------------------------------------
(* Properties                                                              *)

StreamApis == {"execute_stream", "chat_stream"}
LaterStages ==
    {"retrieve", "rerank", "context_build", "prompt_assemble", "generate",
     "post_process"}
Kinds(k) == {i \in 1..Len(events) : events[i].kind = k}
LastKind == IF events = <<>> THEN "" ELSE events[Len(events)].kind
Ended == outcome \in {"returned", "raised"}

\* the request's intent result asks for clarification
ClarificationRequired ==
    \/ api = "chat_stream" /\ intent_pc = "returned"
                           /\ intent_result.requires_clarification
    \/ api = "execute_stream" /\ needs_clarification(ctx)

\* C1: in execute, once the INTENT_CLASSIFY stage has produced an intent that
\* requires clarification, execute has set a non-null response and returned,
\* and no handler of RETRIEVE .. POST_PROCESS has been invoked.
C1_ClarificationShortCircuits ==
    (api = "execute" /\ needs_clarification(ctx)) =>
        /\ outcome = "returned"
        /\ ctx.response # None
        /\ \A k \in 1..Len(invoked) : invoked[k] \notin LaterStages

\* C1 witness: clarification cut short a pipeline whose later stages all have
\* a registered handler.
C1_Witness ==
    /\ api = "execute"
    /\ needs_clarification(ctx)
    /\ outcome = "returned"
    /\ LaterStages \subseteq nodes
    /\ invoked = <<"query_parse", "intent_classify">>

\* C2: in a streaming execution no event follows a done event or an error
\* event: every done or error event is the last event of the stream.
C2_TerminalEventIsLast ==
    api \in StreamApis =>
        \A k \in 1..Len(events) :
            events[k].kind \in {"done", "error"} => k = Len(events)

\* C3: for a streaming execution of a query that needs no clarification and
\* that got past classification, the first event is a status event, the last
\* event of the ended stream is done or error, and every token event comes
\* after a status event with stage "generating".
C3_StreamEventOrdering ==
    (api \in StreamApis /\ ~ClarificationRequired
        /\ pc \notin {"start", "intent_classify"}) =>
        /\ events # <<>> /\ events[1].kind = "status"
        /\ Ended => LastKind \in {"done", "error"}
        /\ \A k \in Kinds("token") :
              \E j \in 1..(k - 1) : events[j] = Status("generating")

\* C4: when the backend fails during generation in chat_stream, the stream
\* ends with exactly one error event after the events already produced, and
\* holds no done event.
C4_GenerationFailureEmitsError ==
    (api = "chat_stream" /\ outcome = "raised" /\ pc = "stream") =>
        /\ LastKind = "error"
        /\ \A k \in Kinds("error") : k = Len(events)
        /\ Kinds("done") = {}

\* C5: when execute returns a context, its response is non-null.
C5_ResponseOrError ==
    (api = "execute" /\ outcome = "returned") => ctx.response # None

\* C6: a streaming execution that ended without any stage failing emitted
\* exactly one done event, and it is the last event.
C6_ExactlyOneDone ==
    (api \in StreamApis /\ outcome = "returned" /\ Kinds("error") = {}) =>
        /\ Cardinality(Kinds("done")) = 1
        /\ LastKind = "done"

\* C7: for every classifier output, the returned IntentResult requires
\* clarification whenever its confidence is below 0.7.
C7_LowConfidenceRequiresClarification ==
    (intent_pc = "returned" /\ try_exception(llm_output) = "none"
        /\ intent_result.confidence < 70) =>
        intent_result.requires_clarification

\* the intent -> template fallback table, keyed by intent category
FallbackTable(category) == match_template(category)

\* the classifier's template id is missing, the placeholder, or not allowed
TemplateRejected(out) ==
    \/ out.suggested_prompt_template \in {MISSING, "", "template_id"}
    \/ out.suggested_prompt_template \notin allowed_template_ids

\* C8: when the classifier's template id is missing, the placeholder or
\* outside the allow-list, the returned template id is the fallback-table
\* entry of the returned intent category, and a member of the allow-list.
C8_TemplateFallbackMatchesIntent ==
    (intent_pc = "returned" /\ try_exception(llm_output) = "none"
        /\ TemplateRejected(llm_output)) =>
        /\ intent_result.suggested_prompt_template
              = FallbackTable(intent_result.intent)
        /\ intent_result.suggested_prompt_template \in allowed_template_ids

\* C9: classify never raises; when the backend fails, the output cannot be
\* parsed or a field value is rejected, it returns the safe default.
C9_ClassifyNeverRaises ==
    /\ intent_pc # "raised"
    /\ (intent_pc = "returned" /\ try_exception(llm_output) # "none") =>
          intent_result = SafeDefault

\* C9 witness: a rejected field value ended in the safe default.
C9_Witness ==
    /\ intent_pc = "returned"
    /\ try_exception(llm_output) = "validation"
    /\ llm_output.intent = "bug_fix"
    /\ intent_result = SafeDefault

ContentsOf(list) == {list[k].page_content : k \in 1..Len(list)}
Succeeded == {i \in Sources : source_outcome[i].kind = "list"}

\* C10: whatever subset of the sources fails, the retrieval returns; the
\* contents of its output are the union of the contents the successful
\* sources returned, no document comes from a failed source, and no content
\* appears twice.
C10_UnionOfSuccessfulSources ==
    /\ (retr_pc = "gather" /\ \A i \in Sources : results[i] # Pending) =>
          ENABLED GatherReturns
    /\ retr_pc = "returned" =>
          /\ ContentsOf(unique_docs)
                = UNION {ContentsOf(source_outcome[i].docs) : i \in Succeeded}
          /\ \A k \in 1..Len(unique_docs) : unique_docs[k].source \in Succeeded
          /\ \A j, k \in 1..Len(unique_docs) :
                unique_docs[j].page_content = unique_docs[k].page_content
                    => j = k

\* C10 witness: one source failed, another returned the same content twice,
\* and the output holds it once.
C10_Witness ==
    /\ retr_pc = "returned"
    /\ Succeeded # Sources
    /\ \E i \in Succeeded :
          /\ Len(source_outcome[i].docs) = 2
          /\ source_outcome[i].docs[1] = source_outcome[i].docs[2]
    /\ Len(unique_docs) = 1

\* the sources' lists concatenated in registration order, a failed source
\* giving nothing
RECURSIVE RegistrationOrderConcat(_)
RegistrationOrderConcat(n) ==
    IF n = 0 THEN <<>>
    ELSE RegistrationOrderConcat(n - 1)
         \o (IF source_outcome[n].kind = "list" THEN source_outcome[n].docs
             ELSE <<>>)

\* the positions of a list that hold the first occurrence of their content
FirstOccurrences(list) ==
    {k \in 1..Len(list) :
        \A j \in 1..(k - 1) : list[j].page_content # list[k].page_content}

\* list is `from` restricted to the positions in keep, in the same order
IsRestriction(list, from, keep) ==
    /\ Len(list) = Cardinality(keep)
    /\ \A k \in keep : list[Cardinality({j \in keep : j <= k})] = from[k]

\* C11: whatever order the source calls complete in, the output is the
\* sources' lists concatenated in registration order with every later
\* occurrence of a content dropped.
C11_RegistrationOrderDecides ==
    retr_pc = "returned" =>
        LET all == RegistrationOrderConcat(NumSources)
        IN  IsRestriction(unique_docs, all, FirstOccurrences(all))

\* C11 witness: the second source completed first, both sources returned the
\* same content, and the first source's document is the one kept.
C11_Witness ==
    /\ retr_pc = "returned"
    /\ settled_order[1] = NumSources
    /\ source_outcome[1] = Returned(<<Document("alpha", 1)>>)
    /\ source_outcome[NumSources].kind = "list"
    /\ source_outcome[NumSources].docs
          = <<Document("beta", NumSources), Document("alpha", NumSources)>>
    /\ unique_docs = <<Document("alpha", 1), Document("beta", NumSources)>>

C13_HungSourceDoesNotBlock ==
    (retr_pc = "gather"
        /\ Cardinality({i \in Sources : source_outcome[i] = Hangs}) = 1
        /\ \A i \in Sources :
              results[i] = Pending => source_outcome[i] = Hangs) =>
        ENABLED GatherReturns

\* C14: when the classified intent is casual_chat, the request invokes no
\* document source, and the citations of the dict chat returns and of the
\* done event chat_stream emits are empty.
C14_CasualChatSkipsRetrieval ==
    (api \in {"chat", "chat_stream"} /\ intent_result.intent = "casual_chat") =>
        /\ source_calls = 0
        /\ reply # None => reply.v.citations = <<>>
        /\ \A k \in 1..Len(events) :
              events[k].kind = "done" => events[k].citations = <<>>

C14_Witness ==
    /\ api = "chat" /\ outcome = "returned"
    /\ intent_result.intent = "casual_chat"
    /\ source_calls = 0
    /\ reply # None /\ reply.v.citations = <<>>

\* the streaming half of the same case
C14_StreamWitness ==
    /\ api = "chat_stream" /\ outcome = "returned"
    /\ intent_result.intent = "casual_chat"
    /\ source_calls = 0
    /\ LastKind = "done"

\* the handler calls of the trace, in order
IsHandlerCall(e) == e.hook = "handler"
HandlerCalls == SelectSeq(trace, IsHandlerCall)

\* C15: within one execute run the registered handlers are invoked in the
\* fixed stage order, each at most once, and a handler is invoked only after
\* the handlers invoked before it have returned.
C15_FixedStageOrder ==
    api = "execute" =>
        /\ \A j, k \in 1..Len(invoked) :
              j < k => stage_index(invoked[j]) < stage_index(invoked[k])
        /\ \A k \in 1..Len(invoked) : invoked[k] \in nodes
        /\ Len(HandlerCalls) = Len(invoked)
        /\ \A k \in 1..Len(HandlerCalls) :
              /\ HandlerCalls[k].stage = invoked[k]
              /\ k < Len(HandlerCalls) => ~HandlerCalls[k].raised

C15_Witness ==
    /\ api = "execute" /\ outcome = "returned"
    /\ nodes = Stages
    /\ invoked = StageOrder

\* the handlers execute invokes for the registration when it runs to its
\* last stage: the registered stages, in stage order
IsRegistered(stage) == stage \in nodes
RegisteredInOrder == SelectSeq(StageOrder, IsRegistered)

\* execute, run to the end without clarification, invokes exactly those
ExecuteInvokesRegistered ==
    (api = "execute" /\ outcome = "returned" /\ ~needs_clarification(ctx)) =>
        invoked = RegisteredInOrder

\* C16: for a query that needs no clarification, execute_stream invokes the
\* handlers of the same stages in the same order as execute does for the same
\* registration.
C16_StreamInvokesSameHandlers ==
    (api = "execute_stream" /\ outcome = "returned"
        /\ ~needs_clarification(ctx)) =>
        invoked = RegisteredInOrder

\* position of a call within its stage: before hooks, handler, after hooks
hook_rank(hook) ==
    CASE hook = "before" -> 1 [] hook = "handler" -> 2 [] OTHER -> 3

\* rank of a call in the order "before hooks by registration, handler, after
\* hooks by registration"
call_key(hook, mw) == hook_rank(hook) * (Len(middlewares) + 1) + mw

\* the calls a stage with a handler makes: the hooks the middlewares have,
\* and the handler
DueCalls ==
    UNION {{call_key(h, m) :
               m \in {n \in 1..Len(middlewares) : middlewares[n][h]}} :
             h \in {"before", "after"}}
    \cup {call_key("handler", 0)}

\* C17: in every stage that runs, the before_stage hooks run in registration
\* order before the handler and the after_stage hooks run in the same
\* registration order after it; each call receives the context the previous
\* call returned. Stated on the call trace: every call is the first call of
\* that order not yet made in its stage.
C17_HooksInRegistrationOrder ==
    api \in {"execute", "execute_stream"} =>
        LET due == DueCalls IN
        \A k \in 1..Len(trace) :
            LET e == trace[k]
                same == k > 1 /\ trace[k - 1].stage = e.stage
                prev == IF same
                        THEN call_key(trace[k - 1].hook, trace[k - 1].mw)
                        ELSE 0
                key == call_key(e.hook, e.mw)
            IN  /\ key \in due
                /\ prev < key
                /\ \A q \in due : ~(prev < q /\ q < key)
                /\ (k > 1 /\ ~same) =>
                      stage_index(trace[k - 1].stage) < stage_index(e.stage)
                /\ e.received = IF k = 1 THEN PipelineContext
                                ELSE trace[k - 1].returned

C17_Witness ==
    /\ Len(middlewares) = 2
    /\ \A m \in 1..2 : middlewares[m].before /\ middlewares[m].after
    /\ Len(trace) >= 5
    /\ <<trace[1].hook, trace[1].mw>> = <<"before", 1>>
    /\ <<trace[2].hook, trace[2].mw>> = <<"before", 2>>
    /\ <<trace[3].hook, trace[3].mw>> = <<"handler", 0>>
    /\ <<trace[4].hook, trace[4].mw>> = <<"after", 1>>
    /\ <<trace[5].hook, trace[5].mw>> = <<"after", 2>>
    /\ \A k \in 1..5 : ~trace[k].raised /\ trace[k].stage = trace[1].stage
    /\ trace[4].returned # trace[4].received
    /\ trace[5].received = trace[4].returned

\* the pipeline is about to call _execute_stage for a stage without handler
AtMissingStage ==
    /\ api \in {"execute", "execute_stream"}
    /\ outcome = "running"
    /\ pc \in Stages \ nodes

C19_FailureAbortsExecution ==
    api = "execute" =>
        /\ \A k \in 1..Len(trace) :
              trace[k].raised => k = Len(trace) /\ outcome = "raised"
        /\ \A j, k \in 1..Len(trace) :
              (trace[j].stage = trace[k].stage /\ trace[j].hook = trace[k].hook
                  /\ trace[j].mw = trace[k].mw) => j = k
        /\ outcome = "raised" =>
              /\ trace # <<>> /\ trace[Len(trace)].raised
              /\ ~ENABLED Next

C19_Witness ==
    /\ api = "execute" /\ outcome = "raised"
    /\ nodes = Stages
    /\ Len(middlewares) = 2
    /\ Len(invoked) = 3
    /\ trace[Len(trace)].raised
    /\ trace[Len(trace)].hook = "after"
    /\ trace[Len(trace)].mw = 1
    /\ trace[Len(trace)].stage = "retrieve"

\* the sources whose call returned a list during the request's retrieval
Survivors(outcomes) ==
    {i \in 1..Len(outcomes) : outcomes[i].kind = "list"}

\* C20: in chat a retrieval failure is not fatal. When a source fails or the
\* retrieve call raises, the request goes on to generation with the documents
\* of the surviving sources (none when the call raised or every source
\* failed) and, unless the generation raises, returns a response citing them;
\* the request fails only at the generation step.
C20_RetrievalFailureNotFatal ==
    api = "chat" =>
        /\ outcome = "raised" => pc = "generate"
        /\ outcome = "running" => ENABLED Next
        /\ retrieval # None =>
              /\ pc = "generate"
              /\ retrieval.v.kind = "raised" => docs = <<>>
              /\ retrieval.v.kind = "returned" =>
                    /\ ContentsOf(docs) =
                          UNION {ContentsOf(retrieval.v.outcomes[i].docs) :
                                    i \in Survivors(retrieval.v.outcomes)}
                    /\ \A k \in 1..Len(docs) :
                          docs[k].source \in Survivors(retrieval.v.outcomes)
        /\ outcome = "returned" =>
              /\ reply # None
              /\ reply.v.response = "answer"
              /\ reply.v.citations = chat_citations(docs)

\* C20 witness: the retrieve call raised and the request returned a response
\* without citations.
C20_Witness ==
    /\ api = "chat" /\ outcome = "returned"
    /\ retrieval = Some([kind |-> "raised", outcomes |-> <<>>])
    /\ source_calls = NumSources
    /\ reply # None /\ reply.v.citations = <<>>

\* one source failed and the response cites the other source's documents
C20_PartialWitness ==
    /\ api = "chat" /\ outcome = "returned"
    /\ retrieval # None /\ retrieval.v.kind = "returned"
    /\ retrieval.v.outcomes[1] = Failed
    /\ Len(reply.v.citations) = MaxDocs
    /\ \A k \in 1..MaxDocs : reply.v.citations[k].source = NumSources

\* the stream has reached generation: the "generating" status was emitted
ReachedGeneration == \E k \in 1..Len(events) : events[k] = Status("generating")

C21_ShortCircuitWitness ==
    /\ api = "execute_stream" /\ outcome = "returned"
    /\ Kinds("retrieval") = {}
    /\ LastKind = "clarification"

\* the list `cites` has one citation per document of `list`, in order: the
\* k-th citation names the k-th document's source and previews its content
CitesInOrder(cites, list) ==
    /\ Len(cites) = Len(list)
    /\ \A k \in 1..Len(list) :
          /\ cites[k].source = list[k].source
          /\ LET text == Text(list[k].page_content)
                 n == IF Len(text) < PreviewLen THEN Len(text) ELSE PreviewLen
             IN  \A c \in 1..n : cites[k].content[c] = text[c]

\* the request's final retrieved-document list
FinalDocs == IF api = "execute_stream" THEN results_or_empty(ctx) ELSE docs

\* C22: the citations of a done event or of the returned response are derived
\* from the final retrieved-document list: one citation per document, in the
\* same order; their number is the found count of the stream's retrieval
\* event, and there is none when no document was retrieved.
C22_CitationsFromFinalDocs ==
    /\ api \in StreamApis =>
          \A k \in Kinds("done") :
              /\ CitesInOrder(events[k].citations, FinalDocs)
              /\ \A r \in Kinds("retrieval") :
                    events[r].found = Len(events[k].citations)
              /\ FinalDocs = <<>> => events[k].citations = <<>>
    /\ (api = "chat" /\ reply # None) =>
          /\ CitesInOrder(reply.v.citations, FinalDocs)
          /\ FinalDocs = <<>> => reply.v.citations = <<>>

\* C22 witness: a finished stream whose done event cites two documents of
\* different sources, after a retrieval event that found two.
C22_Witness ==
    /\ api = "chat_stream" /\ outcome = "returned" /\ LastKind = "done"
    /\ Len(docs) = 2 /\ docs[1].source # docs[2].source
    /\ Len(events[Len(events)].citations) = 2
    /\ \E r \in Kinds("retrieval") : events[r].found = 2

\* C23: whatever the length of a document's content (below, at or above 100
\* characters), the content field of its citation has at most 100 characters.
C23_PreviewAtMost100 ==
    cite_content # None => Len(cite_content.v) <= PreviewLen

\* what the code guarantees instead: at most three characters more
PreviewAtMost103 ==
    cite_content # None =>
        /\ Len(cite_content.v) <= PreviewLen + 3
        /\ Len(cite_content.v) = 3 + (IF Len(cite_text) < PreviewLen
                                      THEN Len(cite_text) ELSE PreviewLen)

\* the consumer of a running chat_stream has detached
Detached == api = "chat_stream" /\ consumer = "detached"

C24_RetrievalWitness ==
    /\ Detached /\ outcome = "cancelled"
    /\ pc = "await_retrieve"
    /\ source_calls = NumSources
    /\ Kinds("error") = {}

\* chat has made its generation call
GenerationPerformed == pc = "generate" /\ outcome \in {"returned", "raised"}

\* C25: when the intent result of a blocking chat request requires
\* clarification, the request performs no document retrieval and no
\* generation.
C25_BlockingHaltsOnClarification ==
    (api = "chat" /\ intent_pc = "returned"
        /\ intent_result.requires_clarification) =>
        /\ source_calls = 0
        /\ ~GenerationPerformed

\* the events of the stream other than the retrieval-failure error event
IsNotError(e) == e.kind # "error"
EventsSansError == SelectSeq(events, IsNotError)

\* the events that open a chat_stream whose intent requires clarification
ClarifiedOpening ==
    <<Status("intent_classify"), Clarification, Status("retrieving")>>

\* C26: in chat_stream, when the intent result requires clarification, one
\* clarification event is emitted right after the classification and the
\* stream goes on: it is followed by the "retrieving" status, the retrieval
\* event, the "generating" status, the token events and, at the end of the
\* stream, the done event.
C26_ClarificationThenContinues ==
    (api = "chat_stream" /\ intent_pc = "returned"
        /\ intent_result.requires_clarification) =>
        LET ev == EventsSansError IN
        /\ Cardinality(Kinds("clarification")) <= 1
        /\ \A k \in 1..Len(ev) :
              /\ k <= 3 => ev[k] = ClarifiedOpening[k]
              /\ k = 4 => ev[k].kind = "retrieval"
              /\ k = 5 => ev[k] = Status("generating")
              /\ k > 5 => \/ /\ k - 5 <= Len(tokens_out)
                             /\ ev[k] = Token(tokens_out[k - 5])
                          \/ /\ k = Len(ev) /\ k = 6 + Len(tokens_out)
                             /\ ev[k].kind = "done"
        /\ events[2] = Clarification
        /\ outcome = "returned" =>
              /\ LastKind = "done"
              /\ Len(ev) = 6 + Len(tokens_out)

\* C26 witness: a finished stream with the clarification event, the retrieval
\* of two documents, every increment and the done event.
C26_Witness ==
    /\ api = "chat_stream" /\ outcome = "returned"
    /\ intent_result.requires_clarification
    /\ events[2] = Clarification
    /\ Len(docs) = 2
    /\ Len(tokens_out) = MaxChunks
    /\ Len(events) = 6 + MaxChunks
    /\ LastKind = "done"

\* the token events of the stream, in order, and their contents
IsToken(e) == e.kind = "token"
TokenEvents == SelectSeq(events, IsToken)
TokenContents == [k \in 1..Len(TokenEvents) |-> TokenEvents[k].content]

\* C27: in chat_stream the token events match the increments of the backend
\* stream one to one and in order; every increment received has been
\* forwarded before the next one is requested; when done is emitted, the
\* accumulated full response is the concatenation of the token contents.
C27_TokensMatchIncrements ==
    api = "chat_stream" =>
        /\ Len(TokenEvents) = Len(tokens_out)
        /\ \A k \in 1..Len(tokens_out) : TokenEvents[k].content = tokens_out[k]
        /\ \A k \in Kinds("token") :
              \A j \in Kinds("status") \cup Kinds("retrieval") : j < k
        /\ Kinds("done") # {} => full_response = TokenContents

\* C27 witness: a finished stream of MaxChunks different increments.
C27_Witness ==
    /\ api = "chat_stream" /\ outcome = "returned" /\ LastKind = "done"
    /\ Len(tokens_out) = MaxChunks
    /\ tokens_out[1] # tokens_out[MaxChunks]
    /\ full_response = tokens_out

\* the GENERATE handler has been invoked in this run
GenerateInvoked == \E k \in 1..Len(invoked) : invoked[k] = "generate"

\* C28: in execute_stream the token events are the increments the registered
\* GENERATE handler produces for the context: the tokens come from an
\* invocation of that handler, and with no GENERATE handler registered no
\* token event is emitted.
C28_TokensFromGenerateHandler ==
    (api = "execute_stream" /\ Kinds("done") # {}) =>
        /\ "generate" \notin nodes => Kinds("token") = {}
        /\ "generate" \in nodes => GenerateInvoked

\* what execute_stream emits instead: one empty token without a handler, the
\* five fixed tokens with one
StreamTokensAreFixed ==
    (api = "execute_stream" /\ Kinds("done") # {}) =>
        TokenContents = IF "generate" \in nodes THEN DummyTokens ELSE <<"">>

\* the failure's message marks a malformed upstream response
MarksMalformed(e) ==
    \E i \in 1..Len(e.message) : e.message[i] \in {NoChunksMarker, NullChoicesMarker}

\* C29: a failure of the underlying generate or stream call is never swallowed:
\* the wrapper returns only when the underlying call did not fail, and what it
\* raises is the invalid-response ValueError (with the guidance, caused by the
\* failure) when the failure's message holds a marker, and the failure itself
\* otherwise; a stream has passed on every chunk that preceded the failure.
C29_FailuresSurface ==
    /\ bl_pc = "returned" => bl_super.failure = None /\ bl_chunks = bl_super.chunks
    /\ bl_pc = "raised" =>
          /\ bl_super.failure # None /\ bl_raised # None
          /\ LET e == bl_super.failure.v
             IN  IF MarksMalformed(e)
                 THEN /\ bl_raised.v.kind = "ValueError"
                      /\ bl_raised.v.cause = Some(e)
                      /\ ~MarksMalformed(bl_raised.v)
                      /\ \E i \in 1..Len(bl_raised.v.message) :
                            bl_raised.v.message[i] =
                              "Please check your API Key, Model Name, and permissions in Bailian Console."
                 ELSE bl_raised.v = e
          /\ bl_method \in StreamMethods => bl_chunks = bl_super.chunks
    /\ (bl_pc = "running" /\ bl_method \in StreamMethods
          /\ bl_chunks = bl_super.chunks /\ bl_super.failure # None)
       => ENABLED BailianStreamNext

C29_Witness ==
    /\ bl_pc = "raised" /\ bl_method = "_astream"
    /\ Len(bl_chunks) = MaxSuperChunks
    /\ bl_super.failure.v.kind = "APIConnectionError"
    /\ bl_super.failure.v.message = <<"Connection error.", NullChoicesMarker>>
    /\ bl_raised.v.kind = "ValueError"

C29_UnchangedWitness ==
    /\ bl_pc = "raised" /\ bl_method = "_agenerate"
    /\ bl_super.failure.v.message = <<"No generation chunks">>
    /\ bl_raised = bl_super.failure

\* C30: the template RAGService.chat renders is the one registered under the
\* template id classify returned, so the template_used of the response
\* metadata names the template that was used.
C30_TemplateUsedIsRendered ==
    (api = "chat" /\ reply # None) =>
        /\ reply.v.intent.suggested_prompt_template \in allowed_template_ids
        /\ reply.v.template_used = reply.v.intent.suggested_prompt_template
        /\ reply.v.rendered = reply.v.template_used

\* the allow-list ids that have a registered template keep the property
RegisteredTemplateIsRendered ==
    (api = "chat" /\ reply # None /\ reply.v.template_used \in prompt_templates) =>
        reply.v.rendered = reply.v.template_used

\* the middlewares whose hook the stage has called
HookRan(hook) ==
    {rg_trace[k].mw : k \in {j \in 1..Len(rg_trace) : rg_trace[j].hook = hook}}
\* the middlewares, of those now registered, that have the hook
HasHook(hook) == {k \in 1..Len(rg_middlewares) : rg_middlewares[k][hook]}
\* the handlers the stage has called
HandlersRan ==
    {rg_trace[k].mw : k \in {j \in 1..Len(rg_trace) : rg_trace[j].hook = "handler"}}

\* C31: when an _execute_stage call has returned, whatever add_middleware and
\* register_node calls another task made while it was suspended, the
\* middlewares (of those having both hooks) whose after_stage ran are those
\* whose before_stage ran, no hook of a middleware added after the call began
\* has run, and the handler called is the one registered when it began.
C31_InFlightStageUnaffected ==
    rg_pc = "returned" =>
        /\ HookRan("after") \cap HasHook("before")
              = HookRan("before") \cap HasHook("after")
        /\ \A k \in HookRan("before") \cup HookRan("after") :
              k <= Len(rg_entry.middlewares)
        /\ HandlersRan \subseteq {rg_entry.nodes[RegStage]}

\* register_node alone never reaches the running stage: the handler called
\* is the one that was registered when the call began
LateNodeNotCalled ==
    HandlersRan \subseteq {rg_entry.nodes[RegStage]} \ {0}

\* without an add_middleware during the call the two sets agree
QuietStageSetsAgree ==
    (rg_pc = "returned" /\ rg_node # 0
        /\ rg_middlewares = rg_entry.middlewares) =>
        /\ HookRan("before") = HasHook("before")
        /\ HookRan("after") = HasHook("after")

\* a middleware appended during the call has its after_stage run, and its
\* before_stage only when the first loop was still running
LateMiddlewareAfterRuns ==
    rg_pc = "returned" /\ rg_node # 0 => HookRan("after") = HasHook("after")

\* the concatenation of a sequence of texts
RECURSIVE concat(_)
concat(texts) ==
    IF texts = <<>> THEN <<>> ELSE Head(texts) \o concat(Tail(texts))

StreamTokens == SelectSeq(ag_stream.events, IsToken)
StreamTokenContents == [k \in 1..Len(StreamTokens) |-> StreamTokens[k].content]
StreamDone == ag_stream.events[Len(ag_stream.events)]
BothReturned ==
    /\ ag_chat # <<>> /\ ag_chat.pc = "returned"
    /\ ag_stream.pc = "returned"

\* C32: for the same query, classifier output (clarification not required),
\* source results and backend output, chat and chat_stream make the same
\* retrieve-or-skip decision and select the same template id, the citations
\* of the done event are the citations of the blocking response, and the
\* token contents concatenated are the blocking response text.
C32_ChatAndStreamAgree ==
    (BothReturned /\ ~ag_chat.intent.requires_clarification) =>
        /\ ag_stream.decision = ag_chat.decision
        /\ ag_stream.template_id = ag_chat.reply.v.template_used
        /\ ag_stream.rendered = ag_chat.reply.v.rendered
        /\ StreamDone.kind = "done"
        /\ StreamDone.citations = ag_chat.reply.v.citations
        /\ concat(StreamTokenContents) = ag_chat.reply.v.response

\* both ran to their end on a retrieving intent, with MaxDocs citations and
\* the text split into increments
C32_Witness ==
    /\ BothReturned /\ ~ag_chat.intent.requires_clarification
    /\ ag_chat.decision = "retrieved"
    /\ Len(ag_chat.reply.v.citations) >= MaxDocs
    /\ Len(StreamTokens) = MaxTextLen
    /\ ag_in.text[1] # ag_in.text[MaxTextLen]

\* both ran to their end on casual_chat, skipping the retrieval
C32_SkipWitness ==
    /\ BothReturned /\ ~ag_chat.intent.requires_clarification
    /\ ag_chat.decision = "skipped" /\ ag_stream.decision = "skipped"
    /\ Len(StreamTokens) = 1 /\ Len(ag_in.text) = MaxTextLen

\* both ran to their end although the retrieval raised
C32_FailedRetrievalWitness ==
    /\ BothReturned /\ ~ag_chat.intent.requires_clarification
    /\ ag_in.retrieve = RetrieveRaised
    /\ ag_chat.decision = "retrieved"

====
